---- MODULE Spec2Model ----
(***************************************************************************)
(* Scheduling and execution engine of the task scheduler backend:          *)
(* the cron registry (SchedulerService over SchedulerRegistry), the        *)
(* per-firing retry loop (executeTask / handleTaskFailure) and the task    *)
(* store operations of TasksService that the engine shares state with.     *)
(***************************************************************************)
EXTENDS Integers, Sequences, FiniteSets, Bags, TLC

\* ---------------------------------------------------------------- bounds
MaxTasks == 2
MaxInFlight == 2
MaxInFlightApi == 1
MaxRetryBound == 2

\* ------------------------------------------------------ program constants
DefaultMaxRetry == 3

\* task ids, in the order create() hands them out
TaskIds == 1..MaxTasks

\* cron expressions as their whitespace-separated fields
EveryMinute == <<"*", "*", "*", "*", "*">>
DailyNine == <<"0", "9", "*", "*", "*">>
InvalidCron == <<"invalid-cron">>
Schedules == {EveryMinute, DailyNine, InvalidCron}

\* new CronJob(schedule, ...) accepts 5 or 6 fields and throws otherwise
CronParses(schedule) == Len(schedule) \in {5, 6}

TaskStatuses == {"ACTIVE", "INACTIVE", "FAILED"}
MaxRetryValues == 0..MaxRetryBound

NoTask == [status |-> "NOT_FOUND", schedule |-> <<>>, maxRetry |-> 0]
NoJob == [schedule |-> <<>>, maxRetry |-> 0]

VARIABLES
    tasks,      \* prisma.task: id -> row, NoTask when there is no row
    nextId,     \* next fresh task id (ids are never reused)
    taskLogs,   \* prisma.taskLog rows of the firings in the slots, per firing in insertion order
    registry,   \* SchedulerRegistry cron map: id -> CronJob, NoJob if absent
    timers,     \* bag of started CronJob objects [taskId, schedule, maxRetry]
    firings,    \* executeTask invocations: slot -> the firing running (or last run) there
    lastCall,   \* the last SchedulerService or Notifier call and how it returned
    delivery    \* DiscordService: the sendTaskNotification call in progress (or the last one)

vars == <<tasks, nextId, taskLogs, registry, timers, firings, lastCall, delivery>>

NoCall == [op |-> "none", taskId |-> 0, raised |-> FALSE, existed |-> FALSE]
Call(op, taskId, raised, existed) ==
    [op |-> op, taskId |-> taskId, raised |-> raised, existed |-> existed]

Job(schedule, maxRetry) == [schedule |-> schedule, maxRetry |-> maxRetry]
Timer(taskId, job) == [taskId |-> taskId, schedule |-> job.schedule, maxRetry |-> job.maxRetry]

\* schedulerRegistry.doesExist('cron', taskId) / hasCronJob
hasCronJob(reg, taskId) == reg[taskId] # NoJob

\* getCronJobs(): the keys of the cron map
getCronJobs(reg) == {id \in TaskIds : hasCronJob(reg, id)}

\* schedulerRegistry.deleteCronJob(taskId): stop the job, drop the key
deleteCronJobReg(reg, taskId) == [reg EXCEPT ![taskId] = NoJob]
deleteCronJobTimers(reg, tm, taskId) ==
    tm (-) SetToBag({Timer(taskId, reg[taskId])})

\* removeCronJob(taskId): registry and timers after the call
\* (the whole body sits in a try/catch that only logs, so it never raises)
removeCronJobReg(reg, taskId) ==
    IF hasCronJob(reg, taskId) THEN deleteCronJobReg(reg, taskId) ELSE reg
removeCronJobTimers_noStop(reg, tm, taskId) == tm
removeCronJobTimers(reg, tm, taskId) ==
    IF hasCronJob(reg, taskId) THEN deleteCronJobTimers(reg, tm, taskId) ELSE tm
removeCronJobRaises_unguarded(reg, taskId) == ~hasCronJob(reg, taskId)
removeCronJobRaises(reg, taskId) == FALSE

\* addCronJob(taskId, _, schedule, _, maxRetry): an existing job is deleted
\* first, then the CronJob constructor parses the schedule and may throw
addCronJobRaises_swallowed(schedule) == FALSE
addCronJobRaises(schedule) == ~CronParses(schedule)
addCronJobReg(reg, taskId, schedule, maxRetry) ==
    LET r1 == removeCronJobReg(reg, taskId)
    IN IF CronParses(schedule)
       THEN [r1 EXCEPT ![taskId] = Job(schedule, maxRetry)]
       ELSE r1
addCronJobTimers_leak(reg, tm, taskId, schedule, maxRetry) ==
    IF CronParses(schedule)
    THEN tm (+) SetToBag({Timer(taskId, Job(schedule, maxRetry))})
    ELSE tm
addCronJobTimers(reg, tm, taskId, schedule, maxRetry) ==
    LET t1 == removeCronJobTimers(reg, tm, taskId)
    IN IF CronParses(schedule)
       THEN t1 (+) SetToBag({Timer(taskId, Job(schedule, maxRetry))})
       ELSE t1

\* updateCronJob(taskId, _, schedule, _, maxRetry): removeCronJob, then addCronJob
updateCronJobReg(reg, taskId, schedule, maxRetry) ==
    addCronJobReg(removeCronJobReg(reg, taskId), taskId, schedule, maxRetry)
updateCronJobTimers_keepsOld(reg, tm, taskId, schedule, maxRetry) ==
    IF CronParses(schedule)
    THEN tm (+) SetToBag({Timer(taskId, Job(schedule, maxRetry))})
    ELSE tm
updateCronJobTimers(reg, tm, taskId, schedule, maxRetry) ==
    addCronJobTimers(removeCronJobReg(reg, taskId),
                     removeCronJobTimers(reg, tm, taskId), taskId, schedule, maxRetry)

\* ------------------------------------------------------------ TasksService
Omitted == "omitted"

\* an optional numeric dto field: left out, or given with a value
NotGiven == <<>>
Given(m) == <<m>>

\* create(dto): maxRetry: dto.maxRetry || 3, status: dto.status || ACTIVE
createRow(dto) ==
    [status   |-> IF dto.status = Omitted THEN "ACTIVE" ELSE dto.status,
     schedule |-> dto.schedule,
     maxRetry |-> IF dto.maxRetry = NotGiven \/ dto.maxRetry[1] = 0
                  THEN DefaultMaxRetry ELSE dto.maxRetry[1]]

\* update(id, dto): only the fields present in the dto are written
updateRow(row, dto) ==
    [status   |-> IF dto.status = Omitted THEN row.status ELSE dto.status,
     schedule |-> IF dto.schedule = Omitted THEN row.schedule ELSE dto.schedule,
     maxRetry |-> IF dto.maxRetry = NotGiven THEN row.maxRetry ELSE dto.maxRetry[1]]

\* toggleTaskStatus: ACTIVE -> INACTIVE, anything else -> ACTIVE
toggledStatus_flipFlop(status) == IF status = "INACTIVE" THEN "ACTIVE" ELSE "INACTIVE"
toggledStatus(status) == IF status = "ACTIVE" THEN "INACTIVE" ELSE "ACTIVE"

\* updateTaskStatus(id, status) on an existing row
withStatus(row, status) == [row EXCEPT !.status = status]

\* ------------------------------------------------------- loadActiveTasks
\* getActiveTasksForScheduler(): the ids of the ACTIVE rows, oldest first
getActiveTasksForScheduler_all(tsk) ==
    LET RECURSIVE from(_)
        from(id) == IF id > MaxTasks THEN <<>>
                    ELSE (IF tsk[id] # NoTask THEN <<id>> ELSE <<>>) \o from(id + 1)
    IN from(1)
getActiveTasksForScheduler(tsk) ==
    LET RECURSIVE from(_)
        from(id) == IF id > MaxTasks THEN <<>>
                    ELSE (IF tsk[id] # NoTask /\ tsk[id].status = "ACTIVE"
                          THEN <<id>> ELSE <<>>) \o from(id + 1)
    IN from(1)

\* loadActiveTasks(): addCronJob for each fetched task in turn; the first
\* addCronJob that throws ends the loop (the outer catch only logs).
\* failedAt is the id whose addCronJob threw, 0 if none did
loadActiveTasks(reg, tm, tsk) ==
    LET RECURSIVE load(_, _, _)
        load(r, t, ids) ==
            IF ids = <<>> THEN [registry |-> r, timers |-> t, failedAt |-> 0]
            ELSE LET id == Head(ids)
                     row == tsk[id]
                     r1 == addCronJobReg(r, id, row.schedule, row.maxRetry)
                     t1 == addCronJobTimers(r, t, id, row.schedule, row.maxRetry)
                 IN IF addCronJobRaises(row.schedule)
                    THEN [registry |-> r1, timers |-> t1, failedAt |-> id]
                    ELSE load(r1, t1, Tail(ids))
    IN load(reg, tm, getActiveTasksForScheduler(tsk))

\* ------------------------------------------------------------ executeTask
LogEntry(status, retryCount) == [status |-> status, retryCount |-> retryCount]

IdleFiring ==
    [taskId |-> 0, maxRetry |-> 0, pc |-> "idle",
     retryCount |-> 0, success |-> FALSE, calls |-> 0, finalCalls |-> 0,
     storeFailed |-> FALSE, statusSet |-> FALSE, result |-> "none"]

NewFiring(t) ==
    [taskId |-> t.taskId, maxRetry |-> t.maxRetry, pc |-> "check",
     retryCount |-> 0, success |-> FALSE, calls |-> 0, finalCalls |-> 0,
     storeFailed |-> FALSE, statusSet |-> FALSE, result |-> "pending"]

Slots == 1..MaxInFlight

\* the step after a Notifier call that did not succeed: retryCount++, then
\* a RETRYING row if retryCount <= maxRetry, else the loop ends
afterFailure_lt(f) ==
    LET rc == f.retryCount + 1
    IN [f EXCEPT !.retryCount = rc,
                 !.pc = IF rc < f.maxRetry THEN "logRetry" ELSE "logFailed"]
afterFailure_oneMore(f) ==
    LET rc == f.retryCount + 1
    IN [f EXCEPT !.retryCount = rc,
                 !.pc = IF rc <= f.maxRetry + 1 THEN "logRetry" ELSE "logFailed"]
afterFailure(f) ==
    LET rc == f.retryCount + 1
    IN [f EXCEPT !.retryCount = rc,
                 !.pc = IF rc <= f.maxRetry THEN "logRetry" ELSE "logFailed"]

\* the step after a Notifier call that returned true: success is set and
\* the SUCCESS row is written next
afterSuccess_flagLost(f) == [f EXCEPT !.pc = "logSuccess"]
afterSuccess(f) == [f EXCEPT !.success = TRUE, !.pc = "logSuccess"]

\* the catch block of the retry loop, entered when sendTaskNotification
\* throws: retryCount++, then a RETRYING row if retryCount <= maxRetry
afterThrow_escapes(f) == [f EXCEPT !.pc = "done", !.result = "crashed"]
afterThrow(f) ==
    LET rc == f.retryCount + 1
    IN [f EXCEPT !.retryCount = rc,
                 !.pc = IF rc <= f.maxRetry THEN "logRetry" ELSE "logFailed"]

\* handleTaskFailure after the final 'failed' notification: its result is
\* not looked at and an error it throws is caught and logged
afterFinalNotify_escapes(f, outcome) ==
    IF outcome = "throw" THEN [f EXCEPT !.pc = "done", !.result = "crashed"]
    ELSE [f EXCEPT !.pc = "setStatus"]
afterFinalNotify_removesFirst(f, outcome) == [f EXCEPT !.pc = "removeJob"]
afterFinalNotify(f, outcome) == [f EXCEPT !.pc = "setStatus"]

\* executeTask's entry check: !task || task.status !== ACTIVE
skipsFiring_inactiveOnly(row) == row = NoTask \/ row.status = "INACTIVE"
skipsFiring_missingOnly(row) == row = NoTask
skipsFiring(row) == row = NoTask \/ row.status # "ACTIVE"

\* the status and counter of the row createTaskLog is about to write
pendingEntry_first(f) ==
    LogEntry(CASE f.pc = "logSuccess" -> "SUCCESS"
               [] f.pc = "logRetry"   -> "RETRYING"
               [] OTHER               -> "FAILED",
             IF f.pc = "logSuccess" THEN 0 ELSE f.retryCount)
pendingEntry_noRetrying(f) ==
    LogEntry(IF f.pc = "logSuccess" THEN "SUCCESS" ELSE "FAILED", f.retryCount)
pendingEntry(f) ==
    LogEntry(CASE f.pc = "logSuccess" -> "SUCCESS"
               [] f.pc = "logRetry"   -> "RETRYING"
               [] OTHER               -> "FAILED",
             f.retryCount)

\* where the firing goes on once createTaskLog has returned: after the
\* SUCCESS row the loop breaks and executeTask returns (success is set),
\* after a RETRYING row the loop makes the next call, after the FAILED row
\* handleTaskFailure sends the final notification
afterLog_noSuccessCheck(f) ==
    CASE f.pc = "logRetry" -> [f EXCEPT !.pc = "notify"]
      [] OTHER             -> [f EXCEPT !.pc = "finalNotify"]
afterLog_appendThrows(f) ==
    IF f.storeFailed THEN [f EXCEPT !.pc = "done", !.result = "crashed"]
    ELSE CASE f.pc = "logSuccess" -> [f EXCEPT !.pc = "done", !.result = "succeeded"]
           [] f.pc = "logRetry"   -> [f EXCEPT !.pc = "notify"]
           [] OTHER               -> [f EXCEPT !.pc = "finalNotify"]
afterLog(f) ==
    CASE f.pc = "logSuccess" -> [f EXCEPT !.pc = "done", !.result = "succeeded"]
      [] f.pc = "logRetry"   -> [f EXCEPT !.pc = "notify"]
      [] OTHER               -> [f EXCEPT !.pc = "finalNotify"]

\* ------------------------------------------------------------ DiscordService
MAX_RETRIES == 3
BASE_DELAY_MS == 1000

\* what the webhook endpoint or the network does with one POST
TransportOutcomes == {"2xx", "4xx", "5xx", "timeout", "refused"}

IdleDelivery ==
    [pc |-> "idle", urlValid |-> TRUE, payloadValid |-> TRUE, attempt |-> 1,
     requests |-> <<>>, slept |-> <<>>, error |-> "none", result |-> "pending"]

NewDelivery(urlValid, payloadValid) ==
    [IdleDelivery EXCEPT !.pc = "send", !.urlValid = urlValid, !.payloadValid = payloadValid]

calculateBackoffDelay_fromTwo(attempt) == BASE_DELAY_MS * 2 ^ attempt
calculateBackoffDelay(attempt) == BASE_DELAY_MS * 2 ^ (attempt - 1)

\* isAxiosError && 400 <= error.response?.status < 500; a BadRequestException
\* thrown by the local validation is no Axios error
isClientError_never(error) == FALSE
isClientError(error) == error = "4xx"

canRetry_le(attempt) == attempt <= MAX_RETRIES
canRetry(attempt) == attempt < MAX_RETRIES

\* the try block of sendTaskNotification: validate the URL, validate the
\* payload, POST; a response outside 2xx, a timeout and a refused
\* connection are thrown by the HTTP client
afterSend(d, response) ==
    IF ~d.urlValid \/ ~d.payloadValid
    THEN [d EXCEPT !.pc = "catch", !.error = "badRequest"]
    ELSE IF response = "2xx"
         THEN [d EXCEPT !.pc = "done", !.requests = Append(@, response), !.result = "true"]
         ELSE [d EXCEPT !.pc = "catch", !.requests = Append(@, response), !.error = response]

handleWebhookError_rethrows(d) ==
    IF isClientError(d.error)
    THEN [d EXCEPT !.pc = "done", !.result = "false"]
    ELSE IF canRetry(d.attempt)
         THEN [d EXCEPT !.pc = "send", !.slept = Append(@, calculateBackoffDelay(d.attempt)),
                        !.attempt = @ + 1, !.error = "none"]
         ELSE [d EXCEPT !.pc = "done", !.result = "raised"]
\* the catch block: no retry for a 4xx answer, otherwise sleep and call
\* sendTaskNotification(attempt + 1) while attempt < MAX_RETRIES
handleWebhookError(d) ==
    IF isClientError(d.error)
    THEN [d EXCEPT !.pc = "done", !.result = "false"]
    ELSE IF canRetry(d.attempt)
         THEN [d EXCEPT !.pc = "send", !.slept = Append(@, calculateBackoffDelay(d.attempt)),
                        !.attempt = @ + 1, !.error = "none"]
         ELSE [d EXCEPT !.pc = "done", !.result = "false"]

TypeOK ==
    /\ delivery.pc \in {"idle", "send", "catch", "done"}
    /\ delivery.result \in {"pending", "true", "false", "raised"}
    /\ nextId \in 1..(MaxTasks + 1)
    /\ \A id \in TaskIds : hasCronJob(registry, id) => CronParses(registry[id].schedule)

\* the ids create() has handed out so far
KnownIds == 1..(nextId - 1)

\* the service right after start-up on an empty database
InitRegistry ==
    /\ nextId = 1
    /\ tasks = [id \in TaskIds |-> NoTask]
    /\ taskLogs = [n \in Slots |-> <<>>]
    /\ registry = [id \in TaskIds |-> NoJob]
    /\ timers = EmptyBag
    /\ firings = [n \in Slots |-> IdleFiring]
    /\ lastCall = NoCall
    /\ delivery = IdleDelivery

\* the service with one task in the database and no cron job installed yet:
\* the task was stored through TasksService.create after start-up, and
\* create() installs no cron job
Init ==
    /\ nextId = 2
    /\ \E st \in TaskStatuses :
          tasks = [id \in TaskIds |->
                     IF id = 1 THEN createRow([schedule |-> EveryMinute, maxRetry |-> NotGiven,
                                               status |-> st])
                     ELSE NoTask]
    /\ taskLogs = [n \in Slots |-> <<>>]
    /\ registry = [id \in TaskIds |-> NoJob]
    /\ timers = EmptyBag
    /\ firings = [n \in Slots |-> IdleFiring]
    /\ lastCall = NoCall
    /\ delivery = IdleDelivery

\* ------------------------------------------- calls into SchedulerService
AddCronJob(taskId, schedule, maxRetry) ==
    /\ registry' = addCronJobReg(registry, taskId, schedule, maxRetry)
    /\ timers' = addCronJobTimers(registry, timers, taskId, schedule, maxRetry)
    /\ lastCall' = Call("addCronJob", taskId, addCronJobRaises(schedule),
                        hasCronJob(registry, taskId))
    /\ UNCHANGED <<delivery, tasks, nextId, taskLogs, firings>>

UpdateCronJob(taskId, schedule, maxRetry) ==
    /\ registry' = updateCronJobReg(registry, taskId, schedule, maxRetry)
    /\ timers' = updateCronJobTimers(registry, timers, taskId, schedule, maxRetry)
    /\ lastCall' = Call("updateCronJob", taskId, addCronJobRaises(schedule),
                        hasCronJob(registry, taskId))
    /\ UNCHANGED <<delivery, tasks, nextId, taskLogs, firings>>

RemoveCronJob(taskId) ==
    /\ registry' = removeCronJobReg(registry, taskId)
    /\ timers' = removeCronJobTimers(registry, timers, taskId)
    /\ lastCall' = Call("removeCronJob", taskId, removeCronJobRaises(registry, taskId),
                        hasCronJob(registry, taskId))
    /\ UNCHANGED <<delivery, tasks, nextId, taskLogs, firings>>

\* onModuleInit / loadActiveTasks: never raises, whatever addCronJob did
LoadActiveTasks ==
    /\ LET after == loadActiveTasks(registry, timers, tasks)
       IN /\ registry' = after.registry
          /\ timers' = after.timers
          /\ lastCall' = Call("loadActiveTasks", after.failedAt, FALSE, FALSE)
    /\ UNCHANGED <<delivery, tasks, nextId, taskLogs, firings>>

\* ---------------------------------------------- calls into TasksService
Create(dto) ==
    /\ nextId <= MaxTasks
    /\ tasks' = [tasks EXCEPT ![nextId] = createRow(dto)]
    /\ nextId' = nextId + 1
    /\ lastCall' = NoCall
    /\ UNCHANGED <<delivery, taskLogs, registry, timers, firings>>

Update(id, dto) ==
    /\ tasks[id] # NoTask
    /\ tasks' = [tasks EXCEPT ![id] = updateRow(tasks[id], dto)]
    /\ lastCall' = NoCall
    /\ UNCHANGED <<delivery, nextId, taskLogs, registry, timers, firings>>

\* toggleTaskStatus(id): findOne throws NotFoundException for an unknown id
Toggle(id) ==
    /\ tasks' = IF tasks[id] = NoTask THEN tasks
                ELSE [tasks EXCEPT ![id] = withStatus(@, toggledStatus(@.status))]
    /\ lastCall' = Call("toggleTaskStatus", id, tasks[id] = NoTask, FALSE)
    /\ UNCHANGED <<delivery, nextId, taskLogs, registry, timers, firings>>

\* remove(id): the row is deleted and its log rows cascade
Remove(id) ==
    /\ tasks[id] # NoTask
    /\ tasks' = [tasks EXCEPT ![id] = NoTask]
    /\ taskLogs' = [n \in Slots |-> IF firings[n].taskId = id THEN <<>> ELSE taskLogs[n]]
    /\ lastCall' = NoCall
    /\ UNCHANGED <<delivery, nextId, registry, timers, firings>>

\* ------------------------------------------------------- one firing
\* a started timer ticks: its callback calls executeTask with the captured arguments
Fire(n, t) ==
    /\ n \in Slots /\ firings[n].pc \in {"idle", "done"}
    /\ \A k \in Slots : k < n => firings[k].pc \notin {"idle", "done"}
    /\ t \in BagToSet(timers)
    /\ firings' = [firings EXCEPT ![n] = NewFiring(t)]
    /\ taskLogs' = [taskLogs EXCEPT ![n] = <<>>]
    /\ lastCall' = NoCall
    /\ UNCHANGED <<delivery, tasks, nextId, registry, timers>>

\* prisma.task.findUnique returns; the firing goes on only for an ACTIVE row
CheckStatus(n, storeOk) ==
    /\ n \in Slots /\ firings[n].pc = "check"
    /\ LET f == firings[n]
           row == tasks[f.taskId]
       IN firings' = [firings EXCEPT ![n] =
              IF ~storeOk
              THEN [f EXCEPT !.pc = "done", !.result = "crashed", !.storeFailed = TRUE]
              ELSE IF skipsFiring(row)
              THEN [f EXCEPT !.pc = "done", !.result = "skipped"]
              ELSE [f EXCEPT !.pc = "notify"]]
    /\ lastCall' = NoCall
    /\ UNCHANGED <<delivery, tasks, nextId, taskLogs, registry, timers>>

\* discordService.sendTaskNotification returns true, returns false or throws
Notify(n, outcome) ==
    /\ n \in Slots /\ firings[n].pc = "notify"
    /\ LET f == [firings[n] EXCEPT !.calls = @ + 1]
       IN firings' = [firings EXCEPT ![n] =
              CASE outcome = "ok"   -> afterSuccess(f)
                [] outcome = "fail" -> afterFailure(f)
                [] OTHER            -> afterThrow(f)]
    /\ lastCall' = Call("sendTaskNotification", firings[n].taskId, outcome = "throw", FALSE)
    /\ UNCHANGED <<delivery, tasks, nextId, taskLogs, registry, timers>>

\* createTaskLog: the row is inserted unless the store fails or the task row
\* is gone (foreign key); an error is swallowed and the firing goes on
CreateTaskLog(n, storeOk) ==
    /\ n \in Slots /\ firings[n].pc \in {"logSuccess", "logRetry", "logFailed"}
    /\ LET f == firings[n]
           written == storeOk /\ tasks[f.taskId] # NoTask
           g == [f EXCEPT !.storeFailed = @ \/ ~written]
       IN /\ taskLogs' = IF written
                         THEN [taskLogs EXCEPT ![n] = Append(@, pendingEntry(f))]
                         ELSE taskLogs
          /\ firings' = [firings EXCEPT ![n] = afterLog(g)]
    /\ lastCall' = NoCall
    /\ UNCHANGED <<delivery, tasks, nextId, registry, timers>>

\* handleTaskFailure: the final 'failed' notification, its outcome ignored
FinalNotify(n, outcome) ==
    /\ n \in Slots /\ firings[n].pc = "finalNotify"
    /\ firings' = [firings EXCEPT ![n] =
          afterFinalNotify([@ EXCEPT !.finalCalls = @ + 1], outcome)]
    /\ lastCall' = Call("sendTaskNotification", firings[n].taskId, outcome = "throw", FALSE)
    /\ UNCHANGED <<delivery, tasks, nextId, taskLogs, registry, timers>>

\* handleTaskFailure: tasksService.updateTaskStatus(taskId, FAILED); when it
\* throws (row gone, store error) the catch block skips removeCronJob
SetStatusFailed(n, storeOk) ==
    /\ n \in Slots /\ firings[n].pc = "setStatus"
    /\ LET f == firings[n]
           persisted == storeOk /\ tasks[f.taskId] # NoTask
       IN /\ tasks' = IF persisted
                      THEN [tasks EXCEPT ![f.taskId] = withStatus(@, "FAILED")]
                      ELSE tasks
          /\ firings' = [firings EXCEPT ![n] =
                IF persisted
                THEN [f EXCEPT !.pc = "removeJob", !.statusSet = TRUE]
                ELSE [f EXCEPT !.pc = "done", !.result = "exhausted", !.storeFailed = TRUE]]
    /\ lastCall' = NoCall
    /\ UNCHANGED <<delivery, nextId, taskLogs, registry, timers>>

\* handleTaskFailure: removeCronJob(taskId) after the status was persisted
RemoveFailedJob(n) ==
    /\ n \in Slots /\ firings[n].pc = "removeJob"
    /\ registry' = removeCronJobReg(registry, firings[n].taskId)
    /\ timers' = removeCronJobTimers(registry, timers, firings[n].taskId)
    /\ firings' = [firings EXCEPT ![n] = [@ EXCEPT !.pc = "done", !.result = "exhausted"]]
    /\ lastCall' = NoCall
    /\ UNCHANGED <<delivery, tasks, nextId, taskLogs>>


\* ------------------------------------------- calls into DiscordService
\* sendTaskNotification(webhookUrl, ...) called from outside: attempt = 1
SendTaskNotification(urlValid, payloadValid) ==
    /\ delivery.pc \in {"idle", "done"}
    /\ delivery' = NewDelivery(urlValid, payloadValid)
    /\ UNCHANGED <<tasks, nextId, taskLogs, registry, timers, firings, lastCall>>

\* the try block of one attempt; response is what the transport answers
\* if the request is sent
PostWebhook(response) ==
    /\ delivery.pc = "send"
    /\ delivery' = afterSend(delivery, response)
    /\ UNCHANGED <<tasks, nextId, taskLogs, registry, timers, firings, lastCall>>

\* the catch block of one attempt
HandleWebhookError ==
    /\ delivery.pc = "catch"
    /\ delivery' = handleWebhookError(delivery)
    /\ UNCHANGED <<tasks, nextId, taskLogs, registry, timers, firings, lastCall>>

\* ------------------------------------------------------------ inputs
NotifierOutcomes == {"ok", "fail", "throw"}
CreateDtos == [schedule : {EveryMinute}, maxRetry : {NotGiven}, status : {Omitted, "INACTIVE"}]
UpdateDtos == [schedule : {Omitted}, maxRetry : {NotGiven}, status : {"ACTIVE", "INACTIVE"}]

\* calls made from outside the engine while firings are in flight
ApiCalls ==
    \/ \E id \in KnownIds, s \in {EveryMinute, InvalidCron}, m \in MaxRetryValues :
          AddCronJob(id, s, m)
    \/ \E id \in TaskIds : RemoveCronJob(id)
    \/ \E id \in KnownIds, dto \in UpdateDtos : Update(id, dto)
    \/ \E id \in KnownIds : Toggle(id)
    \/ \E id \in KnownIds : Remove(id)

\* the engine over a Job Store whose calls fail only for a missing row,
\* API calls arriving while up to MaxInFlightApi firings are running
Next ==
    \/ ApiCalls
    \/ \E n \in 1..MaxInFlightApi, t \in BagToSet(timers) : Fire(n, t)
    \/ \E n \in Slots : CheckStatus(n, TRUE)
    \/ \E n \in Slots, o \in NotifierOutcomes : Notify(n, o)
    \/ \E n \in Slots : CreateTaskLog(n, TRUE)
    \/ \E n \in Slots, o \in NotifierOutcomes : FinalNotify(n, o)
    \/ \E n \in Slots : SetStatusFailed(n, TRUE)
    \/ \E n \in Slots : RemoveFailedJob(n)

Spec == Init /\ [][Next]_vars

\* the same engine over a Job Store any of whose calls may fail
NextFaults ==
    \/ Next
    \/ \E n \in Slots : CheckStatus(n, FALSE)
    \/ \E n \in Slots : CreateTaskLog(n, FALSE)
    \/ \E n \in Slots : SetStatusFailed(n, FALSE)

SpecFaults == Init /\ [][NextFaults]_vars

\* registry and store calls only, no timer ever ticks
NextRegistry ==
    \/ \E id \in KnownIds, s \in Schedules, m \in {0, MaxRetryBound} : AddCronJob(id, s, m)
    \/ \E id \in KnownIds, s \in Schedules, m \in {0, MaxRetryBound} : UpdateCronJob(id, s, m)
    \/ \E id \in TaskIds : RemoveCronJob(id)
    \/ \E dto \in CreateDtos : Create(dto)
    \/ \E id \in KnownIds : Toggle(id)
    \/ \E id \in KnownIds : Remove(id)

SpecRegistry == InitRegistry /\ [][NextRegistry]_vars

\* the engine alone: timers of up to MaxTasks jobs tick while earlier
\* firings, of the same job or of another, are still in their retry loop
NextOverlap ==
    \/ \E dto \in CreateDtos : Create(dto)
    \/ \E id \in KnownIds, m \in {0, MaxRetryBound} : AddCronJob(id, EveryMinute, m)
    \/ \E n \in Slots, t \in BagToSet(timers) : Fire(n, t)
    \/ \E n \in Slots : CheckStatus(n, TRUE)
    \/ \E n \in Slots, o \in NotifierOutcomes : Notify(n, o)
    \/ \E n \in Slots : CreateTaskLog(n, TRUE)
    \/ \E n \in Slots, o \in NotifierOutcomes : FinalNotify(n, o)
    \/ \E n \in Slots : SetStatusFailed(n, TRUE)
    \/ \E n \in Slots : RemoveFailedJob(n)

SpecOverlap == InitRegistry /\ [][NextOverlap]_vars

\* one step of the executeTask invocation running in slot n
FiringStep(n) ==
    \/ CheckStatus(n, TRUE)
    \/ \E o \in NotifierOutcomes : Notify(n, o)
    \/ CreateTaskLog(n, TRUE)
    \/ \E o \in NotifierOutcomes : FinalNotify(n, o)
    \/ SetStatusFailed(n, TRUE)
    \/ RemoveFailedJob(n)

\* cron jobs installed, replaced and removed while firings are running;
\* every awaited call of a running firing returns (the Notifier has a
\* request timeout), so each firing that can take a step eventually takes it
NextCancel ==
    \/ \E id \in KnownIds, m \in {0, MaxRetryBound} : AddCronJob(id, EveryMinute, m)
    \/ \E id \in KnownIds : UpdateCronJob(id, DailyNine, MaxRetryBound)
    \/ \E id \in KnownIds : RemoveCronJob(id)
    \/ \E n \in 1..MaxInFlightApi, t \in BagToSet(timers) : Fire(n, t)
    \/ \E n \in Slots : FiringStep(n)

SpecCancel == Init /\ [][NextCancel]_vars /\ \A n \in Slots : WF_vars(FiringStep(n))

\* start-up over a database filled through the API: rows of any status,
\* some with a schedule the CronJob constructor rejects
StoredDtos ==
    [schedule : {EveryMinute, InvalidCron}, maxRetry : {NotGiven},
     status : {Omitted, "INACTIVE", "FAILED"}]

NextBootstrap ==
    \/ \E dto \in StoredDtos : Create(dto)
    \/ LoadActiveTasks
    \/ \E id \in TaskIds : RemoveCronJob(id)
    \/ \E id \in KnownIds : Toggle(id)
    \/ \E id \in KnownIds : Remove(id)

SpecBootstrap == InitRegistry /\ [][NextBootstrap]_vars

\* the running service: start-up, then tasks created, edited, toggled and
\* deleted through the REST API (TasksController calls TasksService only)
CrudCreateDtos ==
    [schedule : {EveryMinute}, maxRetry : {NotGiven, Given(0), Given(MaxRetryBound)},
     status : {Omitted, "INACTIVE", "FAILED"}]
CrudUpdateDtos ==
    [schedule : {Omitted, DailyNine}, maxRetry : {NotGiven}, status : {Omitted, "ACTIVE"}]

NextCrud ==
    \/ LoadActiveTasks
    \/ \E dto \in CrudCreateDtos : Create(dto)
    \/ \E id \in KnownIds, dto \in CrudUpdateDtos : Update(id, dto)
    \/ \E id \in TaskIds : Toggle(id)
    \/ \E id \in KnownIds : Remove(id)

SpecCrud == InitRegistry /\ [][NextCrud]_vars

\* deliveries of the Notifier, one after the other, for every validity of
\* the webhook URL and of the payload and every answer of the transport
DeliveryStep ==
    \/ \E response \in TransportOutcomes : PostWebhook(response)
    \/ HandleWebhookError

NextNotifier ==
    \/ \E urlValid \in BOOLEAN, payloadValid \in BOOLEAN :
          SendTaskNotification(urlValid, payloadValid)
    \/ \E response \in TransportOutcomes : PostWebhook(response)
    \/ HandleWebhookError

SpecNotifier == InitRegistry /\ [][NextNotifier]_vars /\ WF_vars(DeliveryStep)

\* a scheduled job's maxRetry edited through the API while its timer,
\* installed at start-up, keeps ticking
ReconfigureDtos ==
    [schedule : {Omitted}, maxRetry : {Given(0), Given(MaxRetryBound)}, status : {Omitted}]

NextReconfigure ==
    \/ LoadActiveTasks
    \/ \E id \in KnownIds, dto \in ReconfigureDtos : Update(id, dto)
    \/ \E n \in 1..MaxInFlightApi, t \in BagToSet(timers) : Fire(n, t)
    \/ \E n \in Slots : FiringStep(n)

SpecReconfigure == Init /\ [][NextReconfigure]_vars

\* ------------------------------------------------------------ properties
Finished(n) == firings[n].pc = "done"
JobOf(n) == firings[n].taskId

\* a finished firing none of whose Job Store calls failed and whose job
\* (with its log rows) is still in the store
Undisturbed(n) == Finished(n) /\ ~firings[n].storeFailed /\ tasks[JobOf(n)] # NoTask

\* number of started timers whose callback runs executeTask(taskId, ...)
LiveTimers(tm, taskId) ==
    LET S == {t \in BagToSet(tm) : t.taskId = taskId}
        RECURSIVE Sum(_)
        Sum(X) == IF X = {} THEN 0
                  ELSE LET t == CHOOSE y \in X : TRUE
                       IN CopiesIn(t, tm) + Sum(X \ {t})
    IN Sum(S)

RetryingRows(k) == [i \in 1..k |-> LogEntry("RETRYING", i)]

\* the step in which firing n leaves program point pc
Leaves(n, pc) == firings[n].pc = pc /\ firings'[n].pc # pc

\* C1: a firing of an ACTIVE job with maxRetry N whose Notifier calls all
\* fail makes N + 1 calls and writes exactly N RETRYING rows followed by
\* exactly one FAILED row, and its status update stores FAILED for the job.
C1_ExhaustionWritesNRetryingThenFailed ==
    /\ [](\A n \in Slots :
            (Undisturbed(n) /\ firings[n].result = "exhausted") =>
                LET N == firings[n].maxRetry
                    rows == taskLogs[n]
                IN /\ firings[n].calls = N + 1
                   /\ Len(rows) = N + 1
                   /\ SubSeq(rows, 1, N) = RetryingRows(N)
                   /\ rows[N + 1].status = "FAILED"
                   /\ firings[n].statusSet)
    /\ [][\A n \in Slots :
            (Leaves(n, "setStatus") /\ firings'[n].statusSet) =>
                tasks'[JobOf(n)].status = "FAILED"]_vars

C1_Witness ==
    \E n \in Slots :
        /\ Undisturbed(n) /\ firings[n].result = "exhausted"
        /\ firings[n].maxRetry = MaxRetryBound
        /\ tasks[JobOf(n)].status = "FAILED"

\* C2: a firing whose Notifier fails on the first K calls (K <= maxRetry)
\* and succeeds on call K + 1 writes exactly K RETRYING rows followed by
\* exactly one SUCCESS row whose retry counter is K.
C2_SuccessAfterKFailures ==
    \A n \in Slots :
        (Undisturbed(n) /\ firings[n].result = "succeeded") =>
            LET K == firings[n].retryCount
            IN /\ K <= firings[n].maxRetry
               /\ firings[n].calls = K + 1
               /\ taskLogs[n] = RetryingRows(K) \o <<LogEntry("SUCCESS", K)>>

C2_Witness ==
    \E n \in Slots :
        /\ Undisturbed(n) /\ firings[n].result = "succeeded"
        /\ firings[n].retryCount = MaxRetryBound

\* C3: on exhaustion the FAILED row carries a retry counter equal to
\* maxRetry, and the i-th RETRYING row of the firing carries counter i.
C3_FailedRowCarriesMaxRetry ==
    \A n \in Slots :
        (Undisturbed(n) /\ firings[n].result = "exhausted") =>
            LET N == firings[n].maxRetry
            IN /\ SubSeq(taskLogs[n], 1, N) = RetryingRows(N)
               /\ taskLogs[n][Len(taskLogs[n])] = LogEntry("FAILED", N)

\* C4: a firing that begins while the job's stored status is not ACTIVE
\* (or the job is not found) ends at once, makes no Notifier call, writes
\* no log row and changes neither the job's status nor the registry.
C4_InactiveFiringDoesNothing ==
    /\ [](\A n \in Slots :
            firings[n].result = "skipped" =>
                /\ firings[n].calls = 0 /\ firings[n].finalCalls = 0
                /\ taskLogs[n] = <<>>
                /\ ~firings[n].statusSet)
    /\ [][\A n \in Slots :
            (Leaves(n, "check")
               /\ (tasks[JobOf(n)] = NoTask \/ tasks[JobOf(n)].status # "ACTIVE")) =>
                /\ firings'[n].pc = "done"
                /\ firings'[n].result \in {"skipped", "crashed"}
                /\ firings'[n].calls = 0
                /\ UNCHANGED <<tasks, registry, timers, taskLogs>>]_vars

C4_Witness ==
    \E n \in Slots :
        /\ firings[n].result = "skipped"
        /\ tasks[JobOf(n)] # NoTask /\ tasks[JobOf(n)].status \in {"INACTIVE", "FAILED"}
        /\ hasCronJob(registry, JobOf(n))

\* C5: after any sequence of addCronJob, updateCronJob and removeCronJob
\* calls each job id has at most one started timer, namely the one its
\* registry entry holds; two successive installs leave exactly one.
C5_OneLiveTimerPerJob ==
    \A id \in TaskIds :
        /\ LiveTimers(timers, id) <= 1
        /\ hasCronJob(registry, id) <=> LiveTimers(timers, id) = 1
        /\ hasCronJob(registry, id) => CopiesIn(Timer(id, registry[id]), timers) = 1

C5_Witness ==
    /\ lastCall.op = "addCronJob" /\ lastCall.existed /\ ~lastCall.raised
    /\ LiveTimers(timers, lastCall.taskId) = 1

\* C6: when a firing has exhausted its retries, the registry no longer
\* contains the job id at the moment exhaustion handling completes.
C6_ExhaustionRemovesEntry ==
    [][\A n \in Slots :
        (Leaves(n, firings[n].pc) /\ firings'[n].pc = "done"
           /\ firings'[n].result = "exhausted") =>
            ~hasCronJob(registry', JobOf(n))]_vars

\* C7: outside the window in which exhaustion handling has persisted FAILED
\* but not yet removed the entry, every job id in the registry refers to a
\* stored job whose status is ACTIVE.
C7_OnlyActiveJobsRegistered ==
    \A id \in TaskIds :
        (hasCronJob(registry, id)
           /\ ~\E n \in Slots : JobOf(n) = id /\ firings[n].pc = "removeJob") =>
            (tasks[id] # NoTask /\ tasks[id].status = "ACTIVE")

\* C8: addCronJob or updateCronJob called with an unparseable cron
\* expression fails and leaves the registry (entries and their timers)
\* exactly as it was before the call.
C8_BadCronLeavesRegistryUnchanged ==
    [][\A id \in TaskIds, s \in Schedules, m \in MaxRetryValues :
        (~CronParses(s) /\ (AddCronJob(id, s, m) \/ UpdateCronJob(id, s, m))) =>
            (lastCall'.raised /\ registry' = registry /\ timers' = timers)]_vars

\* C9: addCronJob with an unparseable cron expression reports the error to
\* its caller and hasCronJob(taskId) is false afterwards.
C9_BadCronInstallRejects ==
    [][\A id \in TaskIds, s \in Schedules, m \in MaxRetryValues :
        (~CronParses(s) /\ AddCronJob(id, s, m)) =>
            (lastCall'.raised /\ ~hasCronJob(registry', id)
               /\ LiveTimers(timers', id) = 0)]_vars

C9_Witness ==
    /\ lastCall.op = "addCronJob" /\ lastCall.raised
    /\ ~hasCronJob(registry, lastCall.taskId)

\* C10: removeCronJob called with a job id that has no registry entry never
\* raises and leaves every registry entry, every timer, every job status
\* and the log unchanged.
C10_RemoveAbsentIsNoOp ==
    [][\A id \in TaskIds :
        (~hasCronJob(registry, id) /\ RemoveCronJob(id)) =>
            (~lastCall'.raised /\ UNCHANGED <<registry, timers, tasks, taskLogs>>)]_vars

C10_Witness ==
    /\ lastCall.op = "removeCronJob" /\ ~lastCall.existed /\ ~lastCall.raised
    /\ \E other \in TaskIds \ {lastCall.taskId} :
          hasCronJob(registry, other) /\ tasks[other] # NoTask
    /\ \E n \in Slots : taskLogs[n] # <<>>

\* the ACTIVE rows of the store
ActiveIds == {id \in TaskIds : tasks[id] # NoTask /\ tasks[id].status = "ACTIVE"}

\* C11: loadActiveTasks run on an empty registry, all ACTIVE schedules
\* parseable, leaves the registry's id set equal to the set of ACTIVE job
\* ids, each with one started timer built from the stored row.
C11_BootstrapInstallsExactlyActive ==
    [][(LoadActiveTasks /\ getCronJobs(registry) = {}
          /\ \A id \in ActiveIds : CronParses(tasks[id].schedule)) =>
        /\ getCronJobs(registry') = ActiveIds
        /\ \A id \in ActiveIds :
              /\ registry'[id] = Job(tasks[id].schedule, tasks[id].maxRetry)
              /\ LiveTimers(timers', id) = 1
        /\ \A id \in TaskIds \ ActiveIds : LiveTimers(timers', id) = 0]_vars

C11_Witness ==
    /\ lastCall.op = "loadActiveTasks" /\ lastCall.taskId = 0
    /\ \E id \in ActiveIds : hasCronJob(registry, id)
    /\ \E id \in TaskIds \ ActiveIds : tasks[id] # NoTask /\ ~hasCronJob(registry, id)
    /\ getCronJobs(registry) = ActiveIds

\* C12: loadActiveTasks skips an ACTIVE job whose schedule cannot be parsed
\* and installs every other ACTIVE job, listed before or after the bad one.
C12_BadScheduleDoesNotAbortBootstrap ==
    [][(LoadActiveTasks /\ getCronJobs(registry) = {}) =>
        \A id \in ActiveIds :
            CronParses(tasks[id].schedule) => hasCronJob(registry', id)]_vars

\* firing n is past its retry loop, in exhaustion handling
Exhausting(n) == firings[n].pc \in {"finalNotify", "setStatus", "removeJob"}

\* C13: the log rows written by one firing are, in program order, zero or
\* more RETRYING rows followed by exactly one terminal row (SUCCESS or
\* FAILED), also while firings of other jobs or of the same job interleave.
C13_RetryingThenOneTerminal ==
    \A n \in Slots :
        LET rows == taskLogs[n]
            f == firings[n]
            closed == \/ Exhausting(n)
                      \/ Finished(n) /\ f.result \in {"succeeded", "exhausted"}
        IN /\ \A i \in 1..(Len(rows) - 1) : rows[i].status = "RETRYING"
           /\ (closed /\ ~f.storeFailed) =>
                 /\ Len(rows) >= 1
                 /\ rows[Len(rows)].status =
                        (IF f.result = "succeeded" THEN "SUCCESS" ELSE "FAILED")
           /\ ~closed => \A i \in 1..Len(rows) : rows[i].status = "RETRYING"

C13_Witness ==
    \E n, k \in Slots :
        /\ n # k /\ JobOf(n) = JobOf(k)
        /\ Finished(n) /\ firings[n].result = "exhausted" /\ Len(taskLogs[n]) = MaxRetryBound + 1
        /\ firings[k].pc = "notify" /\ Len(taskLogs[k]) >= 1

\* C14: a firing that ends in SUCCESS, after any number of failed attempts,
\* never enters exhaustion handling and none of its steps changes a job's
\* stored status or the registry: the entry of its job stays installed.
C14_SuccessLeavesStatusAndRegistry ==
    /\ [](\A n \in Slots :
            /\ firings[n].success =>
                  /\ firings[n].pc \in {"logSuccess", "done"}
                  /\ ~firings[n].statusSet /\ firings[n].finalCalls = 0
            /\ firings[n].result = "succeeded" => firings[n].success)
    /\ [][\A n \in Slots :
            (firings'[n] # firings[n]
               /\ firings[n].pc \in {"check", "notify", "logRetry", "logSuccess"}) =>
                UNCHANGED <<tasks, registry, timers>>]_vars

C14_Witness ==
    \E n \in Slots :
        /\ Finished(n) /\ firings[n].result = "succeeded"
        /\ firings[n].retryCount >= 1
        /\ taskLogs[n] = RetryingRows(firings[n].retryCount)
                            \o <<LogEntry("SUCCESS", firings[n].retryCount)>>
        /\ tasks[JobOf(n)] # NoTask /\ tasks[JobOf(n)].status = "ACTIVE"
        /\ hasCronJob(registry, JobOf(n))

\* C15: with maxRetry = 0 and a failing Notifier the firing makes exactly
\* one delivery attempt, writes no RETRYING row, and its FAILED row carries
\* retry counter 0.
C15_ZeroRetryFailsWithCounterZero ==
    \A n \in Slots :
        (Undisturbed(n) /\ firings[n].result = "exhausted" /\ firings[n].maxRetry = 0) =>
            /\ firings[n].calls = 1
            /\ taskLogs[n] = <<LogEntry("FAILED", 0)>>

\* C16: a Notifier call that throws is handled like one that returns
\* failure (retry counter incremented, a RETRYING row next if retries
\* remain, exhaustion otherwise), a throwing final notification does not
\* stop exhaustion handling, and no firing ends because of a Notifier error.
C16_NotifierErrorsAbsorbed ==
    /\ [][\A n \in Slots :
            LET rc == firings[n].retryCount + 1
                next == [firings[n] EXCEPT
                            !.calls = @ + 1, !.retryCount = rc,
                            !.pc = IF rc <= firings[n].maxRetry
                                   THEN "logRetry" ELSE "logFailed"]
            IN /\ Notify(n, "throw") => firings'[n] = next
               /\ Notify(n, "fail") => firings'[n] = next
               /\ FinalNotify(n, "throw") =>
                     (firings'[n].pc = "setStatus" /\ firings'[n].result = "pending")]_vars
    /\ [](\A n \in Slots : firings[n].result = "crashed" => firings[n].calls = 0)

C16_Witness ==
    /\ lastCall.op = "sendTaskNotification" /\ lastCall.raised
    /\ \E n \in Slots :
          /\ JobOf(n) = lastCall.taskId
          /\ firings[n].pc = "logRetry" /\ firings[n].retryCount = MaxRetryBound

\* C17: a log append that fails neither blocks a delivery attempt nor
\* touches the retry counter: whether createTaskLog stored its row or not,
\* the firing goes on from the same point with the same counters, call
\* number i is made with retry counter i - 1, an exhausted firing has made
\* maxRetry + 1 calls, and job statuses and the registry are left alone.
C17_AppendFailureChangesNothingElse ==
    /\ [][\A n \in Slots, storeOk \in BOOLEAN :
            CreateTaskLog(n, storeOk) =>
                /\ [firings'[n] EXCEPT !.storeFailed = FALSE] =
                      [firings[n] EXCEPT
                          !.storeFailed = FALSE,
                          !.pc = CASE firings[n].pc = "logSuccess" -> "done"
                                   [] firings[n].pc = "logRetry"   -> "notify"
                                   [] OTHER                        -> "finalNotify",
                          !.result = IF firings[n].pc = "logSuccess"
                                     THEN "succeeded" ELSE @]
                /\ UNCHANGED <<tasks, registry, timers>>]_vars
    /\ [](\A n \in Slots :
            /\ firings[n].pc = "notify" => firings[n].calls = firings[n].retryCount
            /\ (Exhausting(n) \/ firings[n].result = "exhausted") =>
                  firings[n].calls = firings[n].maxRetry + 1
            /\ firings[n].result = "succeeded" =>
                  firings[n].calls = firings[n].retryCount + 1)

C17_Witness ==
    \E n \in Slots :
        /\ Finished(n) /\ firings[n].result = "exhausted"
        /\ firings[n].storeFailed /\ taskLogs[n] = <<>>
        /\ firings[n].maxRetry = MaxRetryBound /\ firings[n].calls = MaxRetryBound + 1
        /\ firings[n].statusSet
        /\ tasks[JobOf(n)] # NoTask /\ tasks[JobOf(n)].status = "FAILED"
        /\ ~hasCronJob(registry, JobOf(n))

\* C18: an updateCronJob call for a job id that already has an entry with
\* another schedule leaves exactly one started timer for that id, the one
\* of the new schedule; no timer of the earlier schedule is left to fire.
C18_ReplaceLeavesLatestScheduleOnly ==
    [][\A id \in TaskIds, s \in Schedules, m \in MaxRetryValues :
        (CronParses(s) /\ UpdateCronJob(id, s, m)) =>
            /\ registry'[id] = Job(s, m)
            /\ LiveTimers(timers', id) = 1
            /\ \A t \in BagToSet(timers') :
                  t.taskId = id => (t.schedule = s /\ t.maxRetry = m)]_vars

C18_Witness ==
    /\ lastCall.op = "updateCronJob" /\ lastCall.existed /\ ~lastCall.raised
    /\ registry[lastCall.taskId].schedule = DailyNine
    /\ \A t \in BagToSet(timers) :
          t.taskId = lastCall.taskId => t.schedule = DailyNine
    /\ LiveTimers(timers, lastCall.taskId) = 1

\* firing n is inside its retry loop
InRetryLoop(n) == firings[n].pc \in {"notify", "logRetry", "logSuccess", "logFailed"}

\* C19: removeCronJob and updateCronJob leave every running firing as it
\* is; a firing of the job that is in its retry loop when one of them is
\* called still reaches its terminal state, and a timer tick only ever
\* starts a firing from the timer the registry holds at that moment.
C19_CancelStopsTimerNotFiring ==
    /\ [][\A id \in TaskIds, s \in Schedules, m \in MaxRetryValues :
            (RemoveCronJob(id) \/ UpdateCronJob(id, s, m)) =>
                UNCHANGED <<firings, taskLogs, tasks>>]_vars
    /\ [][\A n \in Slots :
            (firings[n].pc \in {"idle", "done"} /\ firings'[n].pc = "check") =>
                /\ hasCronJob(registry, firings'[n].taskId)
                /\ registry[firings'[n].taskId].maxRetry = firings'[n].maxRetry]_vars
    /\ \A n \in Slots :
          (InRetryLoop(n) /\ lastCall.op \in {"removeCronJob", "updateCronJob"}
             /\ lastCall.taskId = JobOf(n))
            ~> (Finished(n) /\ firings[n].result \in {"succeeded", "exhausted"}
                  /\ Len(taskLogs[n]) >= 1
                  /\ taskLogs[n][Len(taskLogs[n])].status \in {"SUCCESS", "FAILED"})

C19_Witness ==
    \E n \in Slots :
        /\ lastCall.op = "removeCronJob" /\ lastCall.existed
        /\ lastCall.taskId = JobOf(n)
        /\ firings[n].pc = "notify" /\ firings[n].retryCount >= 1
        /\ ~hasCronJob(registry, JobOf(n))

\* C20: while a job's stored status is FAILED, a firing of it that reaches
\* its status re-read ends there without a Notifier call and without a log
\* row; Notifier calls and log rows come only from firings that passed the
\* re-read, and no step of a firing moves a status away from FAILED (only
\* an explicit update or toggle does).
C20_FailedJobStaysSilent ==
    /\ [][\A n \in Slots :
            (Leaves(n, "check") /\ tasks[JobOf(n)] # NoTask
               /\ tasks[JobOf(n)].status = "FAILED") =>
                /\ firings'[n].pc = "done" /\ firings'[n].result = "skipped"
                /\ firings'[n].calls = 0 /\ firings'[n].finalCalls = 0
                /\ taskLogs'[n] = <<>>]_vars
    /\ [][\A n \in Slots :
            (firings'[n].calls > firings[n].calls
               \/ firings'[n].finalCalls > firings[n].finalCalls
               \/ Len(taskLogs'[n]) > Len(taskLogs[n])) =>
                (InRetryLoop(n) \/ firings[n].pc = "finalNotify")]_vars
    /\ [][\A id \in TaskIds :
            (tasks[id] # NoTask /\ tasks[id].status = "FAILED"
               /\ tasks'[id] # NoTask /\ tasks'[id].status # "FAILED") =>
                UNCHANGED <<firings, taskLogs, registry, timers>>]_vars

C20_Witness ==
    \E n \in Slots :
        /\ Finished(n) /\ firings[n].result = "skipped"
        /\ tasks[JobOf(n)] # NoTask /\ tasks[JobOf(n)].status = "FAILED"
        /\ hasCronJob(registry, JobOf(n))
        /\ LiveTimers(timers, JobOf(n)) = 1
        /\ firings[n].calls = 0 /\ taskLogs[n] = <<>>

\* C21: a job that becomes ACTIVE at run time (created ACTIVE, or toggled
\* or updated to ACTIVE, a FAILED job included) is in the registry as soon
\* as that operation has completed.
C21_ActivationInstallsAtOnce ==
    [][\A id \in TaskIds :
        (/\ tasks[id] = NoTask \/ tasks[id].status # "ACTIVE"
         /\ tasks'[id] # NoTask /\ tasks'[id].status = "ACTIVE"
         /\ CronParses(tasks'[id].schedule)) =>
            (hasCronJob(registry', id) /\ LiveTimers(timers', id) = 1)]_vars

\* C22: no registry entry and no timer exists for a job that is no longer
\* in the Job Store: deleting a job removes its cron timer.
C22_DeletedJobHasNoTimer ==
    \A id \in TaskIds :
        tasks[id] = NoTask => (~hasCronJob(registry, id) /\ LiveTimers(timers, id) = 0)

\* C23: in every state the registry entry of an ACTIVE job runs the
\* schedule stored for the job, also after the job's schedule was updated.
C23_EntryRunsStoredSchedule ==
    \A id \in TaskIds :
        (hasCronJob(registry, id) /\ tasks[id] # NoTask /\ tasks[id].status = "ACTIVE") =>
            registry[id].schedule = tasks[id].schedule

\* C24: within one delivery a 4xx answer is never retried: handling it
\* ends the delivery with false without sleeping or sending again, so a
\* delivery whose request is answered with 4xx makes exactly one request
\* and takes no backoff delay.
C24_ClientErrorNotRetried ==
    /\ [][(HandleWebhookError /\ delivery.error = "4xx") =>
            /\ delivery'.pc = "done" /\ delivery'.result = "false"
            /\ delivery'.requests = delivery.requests
            /\ delivery'.slept = delivery.slept]_vars
    /\ [](/\ \A i \in DOMAIN delivery.requests :
                delivery.requests[i] = "4xx" => i = Len(delivery.requests)
          /\ (delivery.requests # <<>> /\ delivery.requests[1] = "4xx") =>
                /\ Len(delivery.requests) = 1
                /\ delivery.slept = <<>>
                /\ delivery.pc \in {"catch", "done"}
                /\ delivery.pc = "done" => delivery.result = "false")

C24_Witness ==
    /\ delivery.pc = "done"
    /\ delivery.requests = <<"4xx">>
    /\ delivery.slept = <<>>
    /\ delivery.result = "false"

\* a delivery that passed the local validation and got no 4xx answer
TransportOnly ==
    /\ delivery.urlValid /\ delivery.payloadValid
    /\ \A i \in DOMAIN delivery.requests : delivery.requests[i] # "4xx"

\* C25: a delivery whose transport answers are 2xx, 5xx or network
\* failures sends one request at a time until the first 2xx or until 3
\* requests were sent, returns true iff a 2xx was received (false only
\* after exactly 3 requests, true after 5xx then 2xx with exactly 2), and
\* always terminates.
C25_AtMostThreeRequests ==
    /\ [](TransportOnly =>
            /\ Len(delivery.requests) <= 3
            /\ \A i \in DOMAIN delivery.requests :
                  delivery.requests[i] = "2xx" => i = Len(delivery.requests)
            /\ delivery.pc = "done" =>
                  /\ delivery.result = "true" <=>
                        \E i \in DOMAIN delivery.requests : delivery.requests[i] = "2xx"
                  /\ delivery.result = "false" <=> ~(delivery.result = "true")
                  /\ delivery.result = "false" => Len(delivery.requests) = 3
                  /\ delivery.result = "true" =>
                        delivery.requests[Len(delivery.requests)] = "2xx")
    /\ [][(delivery'.pc # "send" \/ delivery.pc = "catch") =>
            Len(delivery'.requests) <= Len(delivery.requests) + 1]_vars
    /\ (delivery.pc = "send" /\ TransportOnly) ~> (delivery.pc = "done")

C25_Witness ==
    /\ delivery.pc = "done"
    /\ delivery.requests = <<"5xx", "timeout", "refused">>
    /\ delivery.result = "false"

\* the delivery failed: rejected locally, or its last request was not
\* answered with 2xx
DeliveryFailed ==
    \/ ~delivery.urlValid
    \/ ~delivery.payloadValid
    \/ /\ delivery.requests # <<>>
       /\ delivery.requests[Len(delivery.requests)] \in {"4xx", "5xx", "timeout", "refused"}

\* C26: sendTaskNotification never raises: every delivery ends, and ends
\* with a boolean, which is false for an invalid webhook URL, an invalid
\* payload, a 4xx, a 5xx, a timeout and a refused connection.
C26_NotifierNeverRaises ==
    /\ [](/\ delivery.result # "raised"
          /\ delivery.pc = "done" =>
                /\ delivery.result \in {"true", "false"}
                /\ DeliveryFailed => delivery.result = "false")
    /\ (delivery.pc = "send") ~> (delivery.pc = "done")

C26_Witness ==
    /\ delivery.pc = "done"
    /\ ~delivery.urlValid
    /\ delivery.payloadValid
    /\ delivery.result = "false"

\* C27: a delivery rejected by the local validation (invalid webhook URL or
\* invalid payload) sends no request, is not retried, sleeps no backoff
\* delay and returns false after a single attempt.
C27_ValidationFailureNotRetried ==
    (delivery.pc = "done" /\ (~delivery.urlValid \/ ~delivery.payloadValid)) =>
        /\ delivery.requests = <<>>
        /\ delivery.result = "false"
        /\ delivery.attempt = 1
        /\ delivery.slept = <<>>

\* C28: a task created with an explicit maxRetry m is stored with
\* maxRetry = m, m = 0 included; the default applies only when maxRetry
\* is left out.
C28_ExplicitMaxRetryStored ==
    [][\A dto \in CrudCreateDtos :
        Create(dto) =>
            tasks'[nextId].maxRetry =
                (IF dto.maxRetry = NotGiven THEN DefaultMaxRetry ELSE dto.maxRetry[1])]_vars

\* C29: calculateBackoffDelay(k) = 1000 * 2^(k-1) ms, that is 1000, 2000
\* and 4000 ms for k = 1, 2, 3, and the delay slept after failed attempt k
\* is calculateBackoffDelay(k).
C29_BackoffDoubles ==
    /\ [](/\ calculateBackoffDelay(1) = 1000
          /\ calculateBackoffDelay(2) = 2000
          /\ calculateBackoffDelay(3) = 4000
          /\ \A k \in DOMAIN delivery.slept :
                delivery.slept[k] = 1000 * 2 ^ (k - 1))
    /\ [][(HandleWebhookError /\ delivery'.pc = "send") =>
            /\ delivery.error # "4xx"
            /\ delivery'.slept = Append(delivery.slept, 1000 * 2 ^ (delivery.attempt - 1))
            /\ Len(delivery'.slept) = delivery.attempt]_vars

C29_Witness ==
    /\ delivery.slept = <<1000, 2000>>
    /\ delivery.requests = <<"5xx", "timeout">>
    /\ delivery.pc = "send"

\* C30: toggleTaskStatus turns ACTIVE into INACTIVE and INACTIVE into
\* ACTIVE (so two toggles restore either of them), turns FAILED into
\* ACTIVE, and for an unknown id fails with not-found and changes nothing.
C30_ToggleSwitchesStatus ==
    /\ [][\A id \in TaskIds :
            Toggle(id) =>
                IF tasks[id] = NoTask
                THEN lastCall'.raised /\ UNCHANGED <<tasks, registry, timers, taskLogs>>
                ELSE /\ ~lastCall'.raised
                     /\ tasks'[id].status =
                           (CASE tasks[id].status = "ACTIVE"   -> "INACTIVE"
                              [] tasks[id].status = "INACTIVE" -> "ACTIVE"
                              [] OTHER                         -> "ACTIVE")
                     /\ tasks' = [tasks EXCEPT ![id] = [@ EXCEPT !.status = tasks'[id].status]]]_vars
    /\ [](\A st \in {"ACTIVE", "INACTIVE"} : toggledStatus(toggledStatus(st)) = st)

C30_Witness ==
    /\ lastCall.op = "toggleTaskStatus" /\ ~lastCall.raised
    /\ tasks[lastCall.taskId].status = "ACTIVE"
    /\ \E id \in TaskIds : tasks[id] # NoTask /\ tasks[id].status = "FAILED"

\* C31: at most one firing of a job is in its retry loop at any time: a
\* firing that starts while an earlier firing of the same job is still
\* running is skipped, so no two retry loops run against the same job.
C31_OneRetryLoopPerJob ==
    \A n \in Slots, m \in Slots :
        (n # m /\ InRetryLoop(n) /\ InRetryLoop(m)) => JobOf(n) # JobOf(m)

\* C32: on exhaustion the engine makes exactly one more Notifier call, after
\* the FAILED row was written; whether it succeeds, fails or throws, it is
\* not repeated, writes no log row and is followed by the status update
\* (and so by the removal of the registry entry).
C32_OneFinalNotification ==
    /\ [][\A n \in Slots :
            Leaves(n, "finalNotify") =>
                /\ firings'[n].pc = "setStatus"
                /\ firings[n].finalCalls = 0 /\ firings'[n].finalCalls = 1
                /\ UNCHANGED <<taskLogs, tasks, registry, timers>>]_vars
    /\ [](\A n \in Slots :
            /\ firings[n].finalCalls <= 1
            /\ firings[n].finalCalls = 1 =>
                  firings[n].calls = firings[n].maxRetry + 1 /\ ~firings[n].success
            /\ (firings[n].pc = "finalNotify" /\ ~firings[n].storeFailed
                    /\ tasks[JobOf(n)] # NoTask) =>
                  /\ taskLogs[n] # <<>>
                  /\ taskLogs[n][Len(taskLogs[n])].status = "FAILED"
            /\ (Finished(n) /\ firings[n].result = "exhausted") =>
                  firings[n].finalCalls = 1
            /\ (Undisturbed(n) /\ firings[n].result = "exhausted") =>
                  firings[n].statusSet)

C32_Witness ==
    \E n \in Slots :
        /\ lastCall.op = "sendTaskNotification" /\ lastCall.raised
        /\ firings[n].pc = "setStatus"
        /\ firings[n].finalCalls = 1
        /\ taskLogs[n] # <<>>

\* C33: exhaustion handling persists FAILED before it removes the registry
\* entry: the entry is never removed by a firing while the stored status is
\* still ACTIVE, and the only window the path opens is the one between the
\* two steps, with status FAILED and the entry still present.
C33_FailedPersistedBeforeRemoval ==
    /\ [][\A n \in Slots :
            /\ (Leaves(n, "logFailed") \/ Leaves(n, "finalNotify")) =>
                  UNCHANGED <<tasks, registry, timers>>
            /\ (Leaves(n, "setStatus") /\ firings'[n].statusSet) =>
                  /\ tasks'[JobOf(n)].status = "FAILED"
                  /\ firings'[n].pc = "removeJob"
                  /\ UNCHANGED <<registry, timers>>
            /\ Leaves(n, "removeJob") =>
                  /\ firings[n].statusSet
                  /\ tasks[JobOf(n)].status = "FAILED"
                  /\ ~hasCronJob(registry', JobOf(n))
                  /\ UNCHANGED tasks]_vars
    /\ [](\A n \in Slots :
            (firings[n].pc \in {"removeJob", "done"} /\ firings[n].statusSet) =>
                tasks[JobOf(n)].status = "FAILED")

C33_Witness ==
    \E n \in Slots :
        /\ firings[n].pc = "removeJob"
        /\ tasks[JobOf(n)].status = "FAILED"
        /\ hasCronJob(registry, JobOf(n))

\* some firing of job id went through the whole exhaustion handling
ExhaustionCompleted(id) ==
    \E n \in Slots :
        Finished(n) /\ JobOf(n) = id /\ firings[n].result = "exhausted" /\ firings[n].statusSet

\* C34: however install, replace and remove calls interleave with the
\* exhaustion handling of a firing of the same job, once all of them have
\* completed the registry holds at most one entry (one live timer) for the
\* job, and none if the job's stored status is FAILED.
C34_NoEntryForFailedAfterRace ==
    \A id \in TaskIds :
        (/\ \A n \in Slots : firings[n].pc \in {"idle", "done"}
         /\ ExhaustionCompleted(id)
         /\ tasks[id] # NoTask) =>
            /\ LiveTimers(timers, id) <= 1
            /\ tasks[id].status = "FAILED" => ~hasCronJob(registry, id)

\* C35: every firing terminates, bounded by maxRetry alone: its retry loop
\* makes at most maxRetry + 1 Notifier calls, each made only after the
\* previous one returned, followed on exhaustion by at most one final
\* failure notification.
C35_FiringBoundedByMaxRetry ==
    /\ [](\A n \in Slots :
            /\ firings[n].calls <= firings[n].maxRetry + 1
            /\ firings[n].retryCount <= firings[n].calls
            /\ firings[n].finalCalls <= 1
            /\ firings[n].finalCalls = 1 => firings[n].calls = firings[n].maxRetry + 1)
    /\ [][\A n \in Slots :
            firings'[n].pc # "check" =>
                /\ firings'[n].calls \in {firings[n].calls, firings[n].calls + 1}
                /\ firings'[n].calls = firings[n].calls + 1 =>
                      (firings[n].pc = "notify" /\ firings'[n].pc # "notify")]_vars
    /\ \A n \in Slots : (firings[n].pc = "check") ~> Finished(n)

C35_Witness ==
    \E n \in Slots :
        /\ Finished(n)
        /\ firings[n].maxRetry = MaxRetryBound
        /\ firings[n].calls = MaxRetryBound + 1
        /\ firings[n].finalCalls = 1

\* C36: the engine changes a job's status to FAILED only from ACTIVE: when
\* the job is set INACTIVE while one of its firings is in the retry loop,
\* the later exhaustion of that firing does not overwrite INACTIVE.
C36_FailedOnlyFromActive ==
    [][\A n \in Slots :
        (Leaves(n, "setStatus") /\ tasks[JobOf(n)] # NoTask) =>
            \/ tasks[JobOf(n)].status = "ACTIVE"
            \/ tasks'[JobOf(n)].status = tasks[JobOf(n)].status]_vars

\* C37: each firing uses the job's currently stored maxRetry: a firing that
\* begins after maxRetry was updated in the Job Store runs with the updated
\* retry bound, not with the one captured when the timer was installed.
C37_FiringUsesStoredMaxRetry ==
    [][\A n \in Slots :
        (firings[n].pc \in {"idle", "done"} /\ firings'[n].pc = "check"
           /\ tasks[firings'[n].taskId] # NoTask) =>
            firings'[n].maxRetry = tasks[firings'[n].taskId].maxRetry]_vars

\* C38: exhaustion handling removes the job's registry entry also when
\* persisting the FAILED status fails (store error, or the job was deleted
\* while the firing was in flight): a firing that exhausted its retries
\* never leaves the job's timer live.
C38_RemovalDespiteStatusFailure ==
    [][\A n \in Slots :
        Leaves(n, "setStatus") =>
            \/ firings'[n].pc = "removeJob"
            \/ LiveTimers(timers', JobOf(n)) = 0]_vars

\* C39: a Job Store failure during the status re-read at the start of a
\* firing ends the firing with no Notifier call and no log row, and the
\* error is handled inside executeTask: it does not reach the timer callback.
C39_RereadFailureHandled ==
    \A n \in Slots :
        (Finished(n) /\ firings[n].storeFailed /\ firings[n].calls = 0) =>
            /\ taskLogs[n] = <<>>
            /\ firings[n].finalCalls = 0
            /\ firings[n].result # "crashed"

\* the statuses of the rows firing n has written so far
RowStatuses(n) == {taskLogs[n][i].status : i \in DOMAIN taskLogs[n]}

\* C40: within one firing a SUCCESS row is written only after a Notifier
\* call of that firing returned success, no Notifier call follows a
\* successful one, and no firing writes both a SUCCESS and a FAILED row or
\* enters exhaustion handling after a success.
C40_SuccessIsFinal ==
    /\ [][\A n \in Slots :
            /\ ("SUCCESS" \in RowStatuses(n)' /\ "SUCCESS" \notin RowStatuses(n)) =>
                  /\ firings[n].success /\ firings[n].pc = "logSuccess"
                  /\ firings'[n].pc = "done"
            /\ (firings'[n].success /\ ~firings[n].success) =>
                  (Notify(n, "ok") /\ firings'[n].pc = "logSuccess")
            /\ (firings[n].success /\ firings'[n].pc # "check") =>
                  /\ firings'[n].calls = firings[n].calls
                  /\ firings'[n].finalCalls = firings[n].finalCalls
                  /\ firings'[n].success]_vars
    /\ [](\A n \in Slots :
            /\ ~({"SUCCESS", "FAILED"} \subseteq RowStatuses(n))
            /\ "SUCCESS" \in RowStatuses(n) =>
                  /\ firings[n].success
                  /\ taskLogs[n][Len(taskLogs[n])].status = "SUCCESS"
            /\ firings[n].success => (~Exhausting(n) /\ firings[n].pc # "logFailed"
                                        /\ firings[n].result # "exhausted"))

C40_Witness ==
    \E n \in Slots :
        /\ Finished(n) /\ firings[n].success
        /\ firings[n].calls = 2
        /\ RowStatuses(n) = {"RETRYING", "SUCCESS"}
====
